---- MODULE Spec2Model ----
(***************************************************************************)
(* Workspace selector of the account dropdown (switch / create / delete a  *)
(* workspace) and the stream utility readJsonFromStream it uses to read    *)
(* the body of a failed request.                                           *)
(*                                                                         *)
(* Text is a sequence of Unicode code points, a chunk is a sequence of     *)
(* bytes (0..255), a stream is the sequence of chunks still queued in it.  *)
(***************************************************************************)
EXTENDS Integers, Sequences, FiniteSets, TLC

(***************************************************************************)
(* Bounds of the model.                                                    *)
(***************************************************************************)
\* handler invocations in progress at the same time
MaxPending == 2
\* length of the arbitrary byte strings fed to the stream decoder
MaxRawLen == 3
\* nesting depth of the JSON values fed to the stream decoder
MaxDepth == 1

(***************************************************************************)
(* Characters.                                                             *)
(***************************************************************************)
\* U+0020..U+005F and U+0061..U+007E, in code point order
AsciiLow == " !\"#$%&'()*+,-./0123456789:;<=>?@ABCDEFGHIJKLMNOPQRSTUVWXYZ[\\]^_"
AsciiHigh == "abcdefghijklmnopqrstuvwxyz{|}~"

\* code point of a printable ASCII character given as a one-character string
Cp(c) ==
  IF \E i \in 1..Len(AsciiLow) : SubSeq(AsciiLow, i, i) = c
  THEN 31 + CHOOSE i \in 1..Len(AsciiLow) : SubSeq(AsciiLow, i, i) = c
  ELSE 96 + CHOOSE i \in 1..Len(AsciiHigh) : SubSeq(AsciiHigh, i, i) = c

\* the text (code points) of an ASCII string literal
Str(s) == [i \in 1..Len(s) |-> Cp(SubSeq(s, i, i))]

\* U+FFFD, what TextDecoder puts in place of a malformed byte sequence
Replacement == 65533
\* U+FEFF, stripped by TextDecoder when it leads the input
ByteOrderMark == 65279

(***************************************************************************)
(* String.prototype.trim: strips WhiteSpace and LineTerminator code points *)
(* from both ends.                                                         *)
(***************************************************************************)
TrimSet == {9, 10, 11, 12, 13, 32, 160, 5760, 8232, 8233, 8239, 8287, 12288, 65279}
             \cup (8192..8202)

RECURSIVE TrimStart(_)
TrimStart(s) == IF s # <<>> /\ Head(s) \in TrimSet THEN TrimStart(Tail(s)) ELSE s

RECURSIVE TrimEnd(_)
TrimEnd(s) ==
  IF s # <<>> /\ s[Len(s)] \in TrimSet THEN TrimEnd(SubSeq(s, 1, Len(s) - 1)) ELSE s

Trim(s) == TrimEnd(TrimStart(s))

(***************************************************************************)
(* UTF-8.  Utf8Encode is the encoding of a text; Utf8Decode is             *)
(* new TextDecoder().decode(bytes): the WHATWG utf-8 decoder, not fatal    *)
(* (malformed input becomes U+FFFD), with a leading byte order mark        *)
(* removed.                                                                *)
(***************************************************************************)
Utf8EncodeCp(c) ==
  IF c < 128 THEN <<c>>
  ELSE IF c < 2048 THEN <<192 + (c \div 64), 128 + (c % 64)>>
  ELSE IF c < 65536 THEN <<224 + (c \div 4096), 128 + ((c \div 64) % 64), 128 + (c % 64)>>
  ELSE <<240 + (c \div 262144), 128 + ((c \div 4096) % 64),
         128 + ((c \div 64) % 64), 128 + (c % 64)>>

RECURSIVE Utf8Encode(_)
Utf8Encode(text) ==
  IF text = <<>> THEN <<>> ELSE Utf8EncodeCp(Head(text)) \o Utf8Encode(Tail(text))

\* i: next byte; cp: code point under construction; needed: continuation
\* bytes still expected; lower..upper: range allowed for the next one
RECURSIVE Utf8DecodeFrom(_, _, _, _, _, _)
Utf8DecodeFrom(bytes, i, cp, needed, lower, upper) ==
  IF i > Len(bytes) THEN (IF needed # 0 THEN <<Replacement>> ELSE <<>>)
  ELSE LET b == bytes[i] IN
    IF needed = 0 THEN
      IF b <= 127 THEN <<b>> \o Utf8DecodeFrom(bytes, i + 1, 0, 0, 128, 191)
      ELSE IF b \in 194..223 THEN Utf8DecodeFrom(bytes, i + 1, b % 32, 1, 128, 191)
      ELSE IF b \in 224..239 THEN
        Utf8DecodeFrom(bytes, i + 1, b % 16, 2,
                       IF b = 224 THEN 160 ELSE 128, IF b = 237 THEN 159 ELSE 191)
      ELSE IF b \in 240..244 THEN
        Utf8DecodeFrom(bytes, i + 1, b % 8, 3,
                       IF b = 240 THEN 144 ELSE 128, IF b = 244 THEN 143 ELSE 191)
      ELSE <<Replacement>> \o Utf8DecodeFrom(bytes, i + 1, 0, 0, 128, 191)
    ELSE IF b \notin lower..upper THEN
      \* the byte is processed again as the start of a new sequence
      <<Replacement>> \o Utf8DecodeFrom(bytes, i, 0, 0, 128, 191)
    ELSE LET c == cp * 64 + (b % 64) IN
      IF needed = 1 THEN <<c>> \o Utf8DecodeFrom(bytes, i + 1, 0, 0, 128, 191)
      ELSE Utf8DecodeFrom(bytes, i + 1, c, needed - 1, 128, 191)

Utf8Decode(bytes) ==
  LET t == Utf8DecodeFrom(bytes, 1, 0, 0, 128, 191) IN
  IF t # <<>> /\ Head(t) = ByteOrderMark THEN Tail(t) ELSE t

(***************************************************************************)
(* JSON values.  A value is a tuple whose first element is its type; the   *)
(* members of an object are a set of <<key, value>> pairs with distinct    *)
(* keys (a JavaScript object holds one value per key; the order of the     *)
(* keys is not part of the value).  A number written with a fraction or an *)
(* exponent is kept by its lexeme ("real").                                *)
(***************************************************************************)
JNull == <<"null">>
JBool(b) == <<"bool", b>>
JNum(n) == <<"num", n>>
JReal(lexeme) == <<"real", lexeme>>
JStr(s) == <<"str", s>>
JArr(items) == <<"arr", items>>
JObj(members) == <<"obj", members>>

\* obj[key] = value: a repeated key keeps the last value
SetMember(members, key, value) ==
  {m \in members : m[1] # key} \cup {<<key, value>>}

(***************************************************************************)
(* JSON.parse(text): the JSON grammar of ECMA-404, by recursive descent.   *)
(* A parse step returns [ok, v, i]: whether it matched, the value, and the *)
(* position after the match.                                               *)
(***************************************************************************)
JsonWs == {9, 10, 13, 32}
Digits == 48..57

ParseFail == [ok |-> FALSE, v |-> JNull, i |-> 0]
ParseOk(v, i) == [ok |-> TRUE, v |-> v, i |-> i]

\* the code point at position i, -1 past the end of the text
At(t, i) == IF i >= 1 /\ i <= Len(t) THEN t[i] ELSE -1

StartsWith(t, i, lit) ==
  /\ i + Len(lit) - 1 <= Len(t)
  /\ SubSeq(t, i, i + Len(lit) - 1) = lit

RECURSIVE SkipWs(_, _)
SkipWs(t, i) == IF At(t, i) \in JsonWs THEN SkipWs(t, i + 1) ELSE i

RECURSIVE DigitsEnd(_, _)
DigitsEnd(t, i) == IF At(t, i) \in Digits THEN DigitsEnd(t, i + 1) ELSE i

RECURSIVE DecimalValue(_)
DecimalValue(ds) ==
  IF ds = <<>> THEN 0
  ELSE DecimalValue(SubSeq(ds, 1, Len(ds) - 1)) * 10 + (ds[Len(ds)] - 48)

\* number: -? (0 | [1-9][0-9]*) (. [0-9]+)? ([eE] [+-]? [0-9]+)?
ParseNumber(t, i) ==
  LET s == IF At(t, i) = 45 THEN i + 1 ELSE i
      intEnd == IF At(t, s) = 48 THEN s + 1 ELSE DigitsEnd(t, s)
      hasFrac == At(t, intEnd) = 46
      fracEnd == IF hasFrac THEN DigitsEnd(t, intEnd + 1) ELSE intEnd
      hasExp == At(t, fracEnd) \in {69, 101}
      expDigits == IF At(t, fracEnd + 1) \in {43, 45} THEN fracEnd + 2 ELSE fracEnd + 1
      expEnd == IF hasExp THEN DigitsEnd(t, expDigits) ELSE fracEnd
  IN
  IF intEnd = s THEN ParseFail
  ELSE IF hasFrac /\ fracEnd = intEnd + 1 THEN ParseFail
  ELSE IF hasExp /\ expEnd = expDigits THEN ParseFail
  ELSE IF hasFrac \/ hasExp THEN ParseOk(JReal(SubSeq(t, i, expEnd - 1)), expEnd)
  ELSE ParseOk(JNum((IF s = i THEN 1 ELSE -1) * DecimalValue(SubSeq(t, s, intEnd - 1))),
               intEnd)

HexValue(c) ==
  IF c \in 48..57 THEN c - 48
  ELSE IF c \in 65..70 THEN c - 55
  ELSE IF c \in 97..102 THEN c - 87
  ELSE -1

\* the code unit of \uXXXX whose X start at position i, -1 if they are not 4 hex digits
UnicodeEscape(t, i) ==
  IF \A k \in 0..3 : HexValue(At(t, i + k)) >= 0
  THEN HexValue(At(t, i)) * 4096 + HexValue(At(t, i + 1)) * 256
         + HexValue(At(t, i + 2)) * 16 + HexValue(At(t, i + 3))
  ELSE -1

\* the character a single-character escape stands for, -1 if it is none
SimpleEscape(e) ==
  CASE e = 34 -> 34     \* \"
    [] e = 92 -> 92     \* \\
    [] e = 47 -> 47     \* \/
    [] e = 98 -> 8      \* \b
    [] e = 102 -> 12    \* \f
    [] e = 110 -> 10    \* \n
    [] e = 114 -> 13    \* \r
    [] e = 116 -> 9     \* \t
    [] OTHER -> -1

\* the characters of a string, from position i (after the opening quote) to
\* the closing quote
RECURSIVE ParseChars(_, _, _)
ParseChars(t, i, acc) ==
  LET c == At(t, i) IN
  IF c < 32 THEN ParseFail
  ELSE IF c = 34 THEN ParseOk(acc, i + 1)
  ELSE IF c = 92 THEN
    LET e == At(t, i + 1)
        u == UnicodeEscape(t, i + 2)
        lo == IF At(t, i + 6) = 92 /\ At(t, i + 7) = 117 THEN UnicodeEscape(t, i + 8) ELSE -1
    IN
    IF SimpleEscape(e) >= 0 THEN ParseChars(t, i + 2, Append(acc, SimpleEscape(e)))
    ELSE IF e = 117 /\ u >= 0 THEN
      \* a high surrogate followed by a low one is one code point
      IF u \in 55296..56319 /\ lo \in 56320..57343
      THEN ParseChars(t, i + 12, Append(acc, 65536 + (u - 55296) * 1024 + (lo - 56320)))
      ELSE ParseChars(t, i + 6, Append(acc, u))
    ELSE ParseFail
  ELSE ParseChars(t, i + 1, Append(acc, c))

RECURSIVE ParseValue(_, _)
RECURSIVE ParseElements(_, _, _)
RECURSIVE ParseMembers(_, _, _)

\* a value starting at position i (no leading white space)
ParseValue(t, i) ==
  LET c == At(t, i) IN
  IF c = 123 THEN
    LET j == SkipWs(t, i + 1) IN
    IF At(t, j) = 125 THEN ParseOk(JObj({}), j + 1) ELSE ParseMembers(t, j, {})
  ELSE IF c = 91 THEN
    LET j == SkipWs(t, i + 1) IN
    IF At(t, j) = 93 THEN ParseOk(JArr(<<>>), j + 1) ELSE ParseElements(t, j, <<>>)
  ELSE IF c = 34 THEN
    LET r == ParseChars(t, i + 1, <<>>) IN
    IF r.ok THEN ParseOk(JStr(r.v), r.i) ELSE ParseFail
  ELSE IF StartsWith(t, i, Str("null")) THEN ParseOk(JNull, i + 4)
  ELSE IF StartsWith(t, i, Str("true")) THEN ParseOk(JBool(TRUE), i + 4)
  ELSE IF StartsWith(t, i, Str("false")) THEN ParseOk(JBool(FALSE), i + 5)
  ELSE IF c = 45 \/ c \in Digits THEN ParseNumber(t, i)
  ELSE ParseFail

\* the elements of an array from position i (the start of an element) to "]"
ParseElements(t, i, acc) ==
  LET r == ParseValue(t, i)
      j == SkipWs(t, r.i)
      items == Append(acc, r.v)
  IN
  IF ~r.ok THEN ParseFail
  ELSE IF At(t, j) = 93 THEN ParseOk(JArr(items), j + 1)
  ELSE IF At(t, j) = 44 THEN ParseElements(t, SkipWs(t, j + 1), items)
  ELSE ParseFail

\* the members of an object from position i (the start of a key) to "}"
ParseMembers(t, i, acc) ==
  LET k == ParseChars(t, i + 1, <<>>)
      c == SkipWs(t, k.i)
      r == ParseValue(t, SkipWs(t, c + 1))
      j == SkipWs(t, r.i)
      members == SetMember(acc, k.v, r.v)
  IN
  IF At(t, i) # 34 \/ ~k.ok THEN ParseFail
  ELSE IF At(t, c) # 58 \/ ~r.ok THEN ParseFail
  ELSE IF At(t, j) = 125 THEN ParseOk(JObj(members), j + 1)
  ELSE IF At(t, j) = 44 THEN ParseMembers(t, SkipWs(t, j + 1), members)
  ELSE ParseFail

\* JSON.parse(text): [ok |-> TRUE, v |-> value], or ok = FALSE where
\* JSON.parse throws a SyntaxError
JsonParse(text) ==
  LET r == ParseValue(text, SkipWs(text, 1)) IN
  IF r.ok /\ SkipWs(text, r.i) = Len(text) + 1
  THEN [ok |-> TRUE, v |-> r.v]
  ELSE [ok |-> FALSE, v |-> JNull]

(***************************************************************************)
(* JSON.stringify(value): the serialization of a value, without white      *)
(* space.  The members of an object are written in the order of their keys.*)
(***************************************************************************)
RECURSIVE ToDecimal(_)
ToDecimal(n) == IF n < 10 THEN <<48 + n>> ELSE ToDecimal(n \div 10) \o <<48 + (n % 10)>>

HexDigit(d) == IF d < 10 THEN 48 + d ELSE 87 + d

QuoteChar(c) ==
  CASE c = 34 -> <<92, 34>>
    [] c = 92 -> <<92, 92>>
    [] c = 8 -> <<92, 98>>
    [] c = 12 -> <<92, 102>>
    [] c = 10 -> <<92, 110>>
    [] c = 13 -> <<92, 114>>
    [] c = 9 -> <<92, 116>>
    [] c < 32 /\ c \notin {8, 9, 10, 12, 13} ->
         <<92, 117, 48, 48, HexDigit(c \div 16), HexDigit(c % 16)>>
    [] OTHER -> <<c>>

RECURSIVE QuoteChars(_)
QuoteChars(s) == IF s = <<>> THEN <<>> ELSE QuoteChar(Head(s)) \o QuoteChars(Tail(s))

Quote(s) == <<34>> \o QuoteChars(s) \o <<34>>

RECURSIVE KeyBefore(_, _)
KeyBefore(a, b) ==
  IF a = <<>> THEN b # <<>>
  ELSE IF b = <<>> THEN FALSE
  ELSE IF Head(a) # Head(b) THEN Head(a) < Head(b)
  ELSE KeyBefore(Tail(a), Tail(b))

FirstMember(members) ==
  CHOOSE m \in members : \A o \in members : o[1] = m[1] \/ KeyBefore(m[1], o[1])

RECURSIVE Stringify(_)
RECURSIVE StringifyItems(_)
RECURSIVE StringifyMembers(_)

Stringify(v) ==
  CASE v[1] = "null" -> Str("null")
    [] v[1] = "bool" -> IF v[2] THEN Str("true") ELSE Str("false")
    [] v[1] = "num" -> IF v[2] < 0 THEN <<45>> \o ToDecimal(-v[2]) ELSE ToDecimal(v[2])
    [] v[1] = "real" -> v[2]
    [] v[1] = "str" -> Quote(v[2])
    [] v[1] = "arr" -> <<91>> \o StringifyItems(v[2]) \o <<93>>
    [] v[1] = "obj" -> <<123>> \o StringifyMembers(v[2]) \o <<125>>

StringifyItems(items) ==
  IF items = <<>> THEN <<>>
  ELSE IF Len(items) = 1 THEN Stringify(items[1])
  ELSE Stringify(Head(items)) \o <<44>> \o StringifyItems(Tail(items))

StringifyMembers(members) ==
  IF members = {} THEN <<>>
  ELSE LET m == FirstMember(members)
           rest == members \ {m}
       IN Quote(m[1]) \o <<58>> \o Stringify(m[2])
            \o (IF rest = {} THEN <<>> ELSE <<44>> \o StringifyMembers(rest))


(***************************************************************************)
(* readStream / readJsonFromStream.                                        *)
(*                                                                         *)
(* A stream is [state, chunks]: "readable" with the chunks queued in it    *)
(* (none: the stream is closed and empty), "errored" (reader.read()        *)
(* rejects), or "none" (the value is no stream with a getReader method,    *)
(* e.g. undefined: stream.getReader() throws a TypeError).                 *)
(***************************************************************************)
Readable(chunks) == [state |-> "readable", chunks |-> chunks]
ErroredStream == [state |-> "errored", chunks |-> <<>>]
NoStream == [state |-> "none", chunks |-> <<>>]

\* stream.getReader() throws
GetReaderThrows(stream) == stream.state = "none"

\* await reader.read() rejects
ReadRejects(stream) == stream.state = "errored"

\* mutant: every chunk is read and the bytes are put together
AllChunks(stream) ==
  LET Cat[n \in 0..Len(stream.chunks)] ==
        IF n = 0 THEN <<>> ELSE Cat[n - 1] \o stream.chunks[n]
  IN Cat[Len(stream.chunks)]

\* the bytes handed to TextDecoder.decode: the `value` of the one
\* reader.read(), the first chunk queued; no bytes when value is undefined
\* (a stream closed without a chunk)
FirstChunk(stream) == IF stream.chunks = <<>> THEN <<>> ELSE Head(stream.chunks)

\* mutant: the bytes are taken for characters, one each
readStreamBytewise(stream) == FirstChunk(stream)

\* the text readStream returns for a stream it can read
readStream(stream) == Utf8Decode(FirstChunk(stream))

\* mutant: the catch drops the text
ParseBodyDropsText(bodyText) ==
  LET p == JsonParse(bodyText) IN
  IF p.ok THEN [data |-> p.v, error |-> "null"]
  ELSE [data |-> JNull, error |-> "SyntaxError"]

\* what the try / catch around JSON.parse returns for bodyText
ParseBody(bodyText) ==
  LET p == JsonParse(bodyText) IN
  IF p.ok THEN [data |-> p.v, error |-> "null"]
  ELSE [data |-> JStr(bodyText), error |-> "SyntaxError"]

\* readJsonFromStream(stream) for a stream it can read
readJsonFromStream(stream) == ParseBody(readStream(stream))



(***************************************************************************)
(* One call of readJsonFromStream, step by step.                           *)
(*                                                                         *)
(* input is the stream the call is given and origin says how it was made:  *)
(* <<"json", v>> when its chunks hold the UTF-8 encoding of                *)
(* JSON.stringify(v), <<"raw">> for arbitrary bytes.  stream is what is    *)
(* left in the stream, reads counts the calls of reader.read().            *)
(***************************************************************************)
VARIABLES
  input,      \* the stream given to readJsonFromStream
  origin,     \* how the input was made
  stream,     \* the stream as the call has left it
  dpc,        \* "idle" | "getReader" | "read" | "parse" | "returned" | "threw"
  reads,      \* number of reader.read() calls made
  bodyText,   \* const bodyText = await readStream(stream)
  result      \* the value returned

decVars == <<input, origin, stream, dpc, reads, bodyText, result>>

NoResult == [data |-> JNull, error |-> "none"]

\* no call of readJsonFromStream is followed
DecoderIdle ==
  /\ input = NoStream
  /\ origin = <<"none">>
  /\ stream = NoStream
  /\ dpc = "idle"
  /\ reads = 0
  /\ bodyText = <<>>
  /\ result = NoResult

(***************************************************************************)
(* WorkplaceSelector: the component's state and its handlers.              *)
(*                                                                         *)
(* inv holds the handler invocations in progress.  Each is                 *)
(* [op, arg, pc, events]: the handler, what it was invoked with (the       *)
(* tenant_id, or newWorkspaceName or workspaceToDelete as it reads them),  *)
(* the await it is suspended at (or "done": it has run to its end and      *)
(* returns), and the remote calls, notifications and navigations it has    *)
(* made.                                                                   *)
(* An action is one run of a handler between two awaits;                   *)
(* the run that ends a handler leaves it at "done" and Return takes it     *)
(* out of inv before anything else happens, since no other handler runs    *)
(* between a handler's last statement and its return.  In a state with an  *)
(* invocation at "done" the component's state is the one that invocation   *)
(* ends with.                                                              *)
(*                                                                         *)
(* The handlers are invoked in any state of the component: which widget    *)
(* is shown or enabled at that moment belongs to the Menu, Modal and       *)
(* Button components, which are not part of these sources.                 *)
(***************************************************************************)
VARIABLES
  workspaces,         \* useWorkspacesContext().workspaces
  isCreating,         \* useState(false)
  newWorkspaceName,   \* useState(''): a text
  loading,            \* useState(false)
  isDeleting,         \* useState(false)
  workspaceToDelete,  \* useState(null): <<>> for null, <<[id, name]>> otherwise
  inv,                \* the handler invocations in progress
  location            \* the URL last given to location.assign, <<>> if none

flowVars == <<workspaces, isCreating, newWorkspaceName, loading, isDeleting,
              workspaceToDelete, inv, location>>

uiVars == <<isCreating, newWorkspaceName, loading, isDeleting, workspaceToDelete>>

\* maxLength of the name input
NameMaxLength == 50

\* `${location.origin}` and `${location.origin}${basePath}`
OriginUrl == <<"location.origin">>
OriginBasePathUrl == <<"location.origin", "basePath">>

\* the messages given to notify, by their translation keys
ModifiedSuccessfully == <<"common.actionMsg.modifiedSuccessfully">>
SaveFailed == <<"common.provider.saveFailed">>
NameRequired == <<"common.userProfile.workspace", "common.actionMsg.nameRequired">>
CreateFailedExceed == <<"common.actionMsg.createFailedExceed">>
CreatedSuccessfully == <<"common.actionMsg.createdSuccessfully">>
CreateFailed == <<"common.actionMsg.createFailed">>
DeletedSuccessfully == <<"common.actionMsg.deletedSuccessfully">>
DeleteFailed == <<"common.actionMsg.deleteFailed">>

\* what an invocation does that is seen outside the component
Call(op, arg) == <<"call", op, arg>>
\* the call resolves with value ("" for void)
Resolved(op, value) == <<"resolved", op, value>>
Rejected(op) == <<"rejected", op>>
Notify(type, message) == <<"notify", type, message>>
Navigate(url) == <<"navigate", url>>
\* readJsonFromStream is called; it returned result; it threw
ReadJson == <<"readJson">>
Decoded(res) == <<"decoded", res>>
DecodeThrew == <<"decodeThrew">>

(***************************************************************************)
(* The inputs of the component.                                            *)
(***************************************************************************)
Row(id, name, current, role) ==
  [id |-> id, name |-> name, current |-> current, role |-> role]

\* the workspace lists handed to the component
WorkspaceRows ==
  { <<Row("w1", "Alpha", TRUE, "owner"), Row("w2", "Beta", FALSE, "owner")>>,
    <<Row("w1", "Alpha", FALSE, "normal"), Row("w2", "Beta", TRUE, "owner")>>,
    <<Row("w1", "Alpha", FALSE, "owner"), Row("w2", "Beta", FALSE, "owner"),
      Row("w3", "Gamma", TRUE, "normal")>> }

\* the names typed into the input: a blank one and one with blanks around
TypedNames == { <<32>>, <<32, 97, 98, 9>> }

\* the ids createWorkspace answers with
CreatedIds == {"n1", "n2"}

Bytes(s) == Utf8Encode(Str(s))

ExceedBody == Bytes("{\"code\":\"exceed_max_workspaces\"}")

\* the bodies of the errors createWorkspace fails with, when they are streams
ErrorBodies ==
  { ErroredStream,
    Readable(<<>>),
    Readable(<<ExceedBody>>),
    Readable(<<SubSeq(ExceedBody, 1, 20), SubSeq(ExceedBody, 21, Len(ExceedBody))>>),
    Readable(<<Bytes("{\"code\":\"other_error\"}")>>),
    Readable(<<Bytes("{\"message\":\"exceed_max_workspaces\"}")>>),
    Readable(<<Bytes("null")>>),
    Readable(<<Bytes("Internal Server Error")>>) }

(***************************************************************************)
(* Helpers of the handlers.                                                *)
(***************************************************************************)
\* workspaces.find(v => v.current): <<>> for undefined
currentWorkspace ==
  IF \E k \in 1..Len(workspaces) : workspaces[k].current
  THEN <<workspaces[CHOOSE k \in 1..Len(workspaces) :
            /\ workspaces[k].current
            /\ \A j \in 1..(k - 1) : ~workspaces[j].current]>>
  ELSE <<>>

Invocation(op, arg, pc, events) == [op |-> op, arg |-> arg, pc |-> pc, events |-> events]

\* invocation i goes on: it makes events and is then at pc
Continue(i, events, pc) ==
  inv' = [inv EXCEPT ![i].events = @ \o events, ![i].pc = pc]

\* no handler is at its return: a handler can start or resume
Idle == \A i \in 1..Len(inv) : inv[i].pc # "done"

CodeKey == Str("code")
ExceedCode == JStr(Str("exceed_max_workspaces"))

\* a handler can be invoked: none is at its return, and the model has room
Starts == Idle /\ Len(inv) < MaxPending

\* invocation i of handler op resumes from the await pc
Resumes(i, op, pc) == Idle /\ inv[i].op = op /\ inv[i].pc = pc

\* const { code } = data || {} ; code === 'exceed_max_workspaces'
CodeIsExceed(data) == data[1] = "obj" /\ <<CodeKey, ExceedCode>> \in data[2]

\* mutant: the try of handleCreateWorkspace that has the generic catch opens
\* after the inner catch, so that only the chained switch is inside it
GuardedAfterInnerCatch(op) ==
  CASE op = "switch" -> {"awaitSwitch"}
    [] op = "create" -> {"awaitCreate", "awaitSwitch"}
    [] op = "delete" -> {"awaitDelete"}

\* The awaits of each handler that lie inside a try block with a catch
\* clause.  In handleCreateWorkspace the await of createWorkspace is in the
\* inner try; the inner catch, which holds the await of readJsonFromStream,
\* and the await of the chained switchWorkspace are in the outer try.
Guarded(op) ==
  CASE op = "switch" -> {"awaitSwitch"}
    [] op = "create" -> {"awaitCreate", "awaitRead", "awaitSwitch"}
    [] op = "delete" -> {"awaitDelete"}

\* What handler op does with an exception thrown at the await pc: it runs
\* the catch clause, which makes `events`, and ends; or, when no catch
\* clause is around the await, the exception leaves the handler.
Catch(op, pc, events) ==
  IF pc \in Guarded(op)
  THEN [events |-> events, pc |-> "done"]
  ELSE [events |-> <<>>, pc |-> "uncaught"]

(***************************************************************************)
(* handleSwitchWorkspace(tenant_id)                                        *)
(***************************************************************************)
\* mutant: no check of the current workspace
handleSwitchWorkspaceUnchecked(tenant_id) ==
  /\ Starts
  /\ \E k \in 1..Len(workspaces) : workspaces[k].id = tenant_id
  /\ inv' = Append(inv, Invocation("switch", tenant_id, "awaitSwitch",
                                   <<Call("switch", tenant_id)>>))
  /\ UNCHANGED <<workspaces, decVars, uiVars, location>>

\* the click on a workspace row: up to the await of switchWorkspace
handleSwitchWorkspace(tenant_id) ==
  /\ Starts
  /\ \E k \in 1..Len(workspaces) : workspaces[k].id = tenant_id
  /\ IF currentWorkspace # <<>> /\ currentWorkspace[1].id = tenant_id
     THEN inv' = Append(inv, Invocation("switch", tenant_id, "done", <<>>))
     ELSE inv' = Append(inv, Invocation("switch", tenant_id, "awaitSwitch",
                                        <<Call("switch", tenant_id)>>))
  /\ UNCHANGED <<workspaces, decVars, uiVars, location>>

\* switchWorkspace resolves: notify success, location.assign(origin + basePath)
SwitchResolved(i) ==
  /\ Resumes(i, "switch", "awaitSwitch")
  /\ Continue(i, <<Resolved("switch", ""), Notify("success", ModifiedSuccessfully),
                   Navigate(OriginBasePathUrl)>>, "done")
  /\ location' = OriginBasePathUrl
  /\ UNCHANGED <<workspaces, decVars, uiVars>>

\* mutant: the catch reads the error body as handleCreateWorkspace does
SwitchRejectedDecoding(i) ==
  /\ Resumes(i, "switch", "awaitSwitch")
  /\ Continue(i, <<Rejected("switch"), ReadJson, Decoded(readJsonFromStream(Readable(<<>>))),
                   Notify("error", SaveFailed)>>, "done")
  /\ UNCHANGED <<workspaces, decVars, uiVars, location>>

\* switchWorkspace rejects: the catch notifies saveFailed
SwitchRejected(i) ==
  /\ Resumes(i, "switch", "awaitSwitch")
  /\ LET c == Catch("switch", "awaitSwitch", <<Notify("error", SaveFailed)>>)
     IN Continue(i, <<Rejected("switch")>> \o c.events, c.pc)
  /\ UNCHANGED <<workspaces, decVars, uiVars, location>>

(***************************************************************************)
(* handleCreateWorkspace()                                                 *)
(***************************************************************************)
\* mutant: the draft name is not reset
CreateFinallyKeepsDraft ==
  /\ loading' = FALSE
  /\ isCreating' = FALSE
  /\ UNCHANGED <<newWorkspaceName, isDeleting, workspaceToDelete>>

\* the finally block
CreateFinally ==
  /\ loading' = FALSE
  /\ isCreating' = FALSE
  /\ newWorkspaceName' = <<>>
  /\ UNCHANGED <<isDeleting, workspaceToDelete>>

\* mutant: the name is sent as typed
CreateBodyNameAsTyped == newWorkspaceName

\* the name sent to createWorkspace
CreateBodyName == Trim(newWorkspaceName)

\* mutant: setLoading(true) comes before the validation
handleCreateWorkspaceLoadsFirst ==
  /\ Starts
  /\ loading' = TRUE
  /\ IF Trim(newWorkspaceName) = <<>>
     THEN inv' = Append(inv, Invocation("create", newWorkspaceName, "done",
                                        <<Notify("error", NameRequired)>>))
     ELSE inv' = Append(inv, Invocation("create", newWorkspaceName, "awaitCreate",
                                        <<Call("create", CreateBodyName)>>))
  /\ UNCHANGED <<isCreating, newWorkspaceName, isDeleting, workspaceToDelete>>
  /\ UNCHANGED <<workspaces, decVars, location>>

\* the click on Create: the validation, then up to the await of createWorkspace
handleCreateWorkspace ==
  /\ Starts
  /\ IF Trim(newWorkspaceName) = <<>>
     THEN /\ inv' = Append(inv, Invocation("create", newWorkspaceName, "done",
                                           <<Notify("error", NameRequired)>>))
          /\ UNCHANGED uiVars
     ELSE /\ loading' = TRUE
          /\ inv' = Append(inv, Invocation("create", newWorkspaceName, "awaitCreate",
                                           <<Call("create", CreateBodyName)>>))
          /\ UNCHANGED <<isCreating, newWorkspaceName, isDeleting, workspaceToDelete>>
  /\ UNCHANGED <<workspaces, decVars, location>>

\* mutant: the switch is called with the id createWorkSpaceRst starts with
CreateResolvedStaleId(i, id) ==
  /\ Resumes(i, "create", "awaitCreate")
  /\ Continue(i, <<Resolved("create", id), Notify("success", CreatedSuccessfully),
                   Call("switch", "")>>, "awaitSwitch")
  /\ UNCHANGED <<workspaces, decVars, uiVars, location>>

\* createWorkspace resolves with {id}: notify success, then up to the await
\* of the switch to the new workspace
CreateResolved(i, id) ==
  /\ Resumes(i, "create", "awaitCreate")
  /\ Continue(i, <<Resolved("create", id), Notify("success", CreatedSuccessfully),
                   Call("switch", id)>>, "awaitSwitch")
  /\ UNCHANGED <<workspaces, decVars, uiVars, location>>

\* createWorkspace rejects with an error whose body is no stream: the inner
\* catch calls readJsonFromStream(error.body), getReader throws, the outer
\* catch notifies createFailed; finally
CreateRejectedNoBody(i) ==
  /\ Resumes(i, "create", "awaitCreate")
  /\ GetReaderThrows(NoStream)
  /\ LET c == Catch("create", "awaitRead", <<Notify("error", CreateFailed)>>)
     IN Continue(i, <<Rejected("create"), ReadJson, DecodeThrew>> \o c.events, c.pc)
  /\ CreateFinally
  /\ UNCHANGED <<workspaces, decVars, location>>

\* createWorkspace rejects with an error whose body is a stream: the inner
\* catch calls readJsonFromStream(error.body), up to the await of the read
CreateRejected(i) ==
  /\ Resumes(i, "create", "awaitCreate")
  /\ Continue(i, <<Rejected("create"), ReadJson>>, "awaitRead")
  /\ UNCHANGED <<workspaces, decVars, uiVars, location>>

\* mutant: any other result is notified as createFailed
DecodeBranchWithFallback(res) ==
  IF res.error = "null" /\ CodeIsExceed(res.data)
  THEN <<Notify("error", CreateFailedExceed)>>
  ELSE <<Notify("error", CreateFailed)>>

\* what the inner catch notifies for the result of readJsonFromStream
DecodeBranch(res) ==
  IF res.error = "null" /\ CodeIsExceed(res.data)
  THEN <<Notify("error", CreateFailedExceed)>>
  ELSE <<>>

\* mutant: the inner catch does not return: after the decoding returned the
\* handler goes on with the success notification and the chained switch
ErrorBodyReadNoReturn(i, body) ==
  /\ Resumes(i, "create", "awaitRead")
  /\ ~GetReaderThrows(body)
  /\ UNCHANGED <<workspaces, decVars, location>>
  /\ IF ReadRejects(body)
     THEN /\ CreateFinally
          /\ Continue(i, <<DecodeThrew, Notify("error", CreateFailed)>>, "done")
     ELSE /\ UNCHANGED uiVars
          /\ LET res == readJsonFromStream(body)
             IN Continue(i, <<Decoded(res)>> \o DecodeBranch(res)
                              \o <<Notify("success", CreatedSuccessfully),
                                   Call("switch", "")>>,
                         "awaitSwitch")

\* the read of the error body, which turns out to be `body`, settles:
\* readJsonFromStream throws (outer catch: createFailed) or returns (inner
\* catch, then return); finally
ErrorBodyRead(i, body) ==
  /\ Resumes(i, "create", "awaitRead")
  /\ ~GetReaderThrows(body)
  /\ CreateFinally
  /\ UNCHANGED <<workspaces, decVars, location>>
  /\ IF ReadRejects(body)
     THEN LET c == Catch("create", "awaitRead", <<Notify("error", CreateFailed)>>)
          IN Continue(i, <<DecodeThrew>> \o c.events, c.pc)
     ELSE LET res == readJsonFromStream(body)
          IN Continue(i, <<Decoded(res)>> \o DecodeBranch(res), "done")

\* the switch to the new workspace resolves: location.assign(origin); finally
CreatedSwitchResolved(i) ==
  /\ Resumes(i, "create", "awaitSwitch")
  /\ Continue(i, <<Resolved("switch", ""), Navigate(OriginUrl)>>, "done")
  /\ location' = OriginUrl
  /\ CreateFinally
  /\ UNCHANGED <<workspaces, decVars>>

\* mutant: the chained switch is tried again when it rejects
CreatedSwitchRejectedRetrying(i) ==
  /\ Resumes(i, "create", "awaitSwitch")
  /\ Continue(i, <<Rejected("switch"), Call("switch", inv[i].events[2][3])>>, "awaitSwitch")
  /\ UNCHANGED <<workspaces, decVars, uiVars, location>>

\* the switch to the new workspace rejects: outer catch, createFailed; finally
CreatedSwitchRejected(i) ==
  /\ Resumes(i, "create", "awaitSwitch")
  /\ LET c == Catch("create", "awaitSwitch", <<Notify("error", CreateFailed)>>)
     IN Continue(i, <<Rejected("switch")>> \o c.events, c.pc)
  /\ CreateFinally
  /\ UNCHANGED <<workspaces, decVars, location>>

(***************************************************************************)
(* handleDeleteWorkspace()                                                 *)
(***************************************************************************)
\* mutant: workspaceToDelete is not cleared
DeleteFinallyKeepsWorkspace ==
  /\ loading' = FALSE
  /\ isDeleting' = FALSE
  /\ UNCHANGED <<workspaceToDelete, isCreating, newWorkspaceName>>

\* the finally block
DeleteFinally ==
  /\ loading' = FALSE
  /\ isDeleting' = FALSE
  /\ workspaceToDelete' = <<>>
  /\ UNCHANGED <<isCreating, newWorkspaceName>>

\* mutant: no check of workspaceToDelete; reading the id of null throws in
\* the try, the catch notifies, finally
handleDeleteWorkspaceUnguarded ==
  /\ Starts
  /\ IF workspaceToDelete = <<>>
     THEN /\ inv' = Append(inv, Invocation("delete", workspaceToDelete, "done",
                                           <<Notify("error", DeleteFailed)>>))
          /\ DeleteFinally
     ELSE /\ loading' = TRUE
          /\ inv' = Append(inv, Invocation("delete", workspaceToDelete, "awaitDelete",
                                           <<Call("delete", workspaceToDelete[1].id)>>))
          /\ UNCHANGED <<isCreating, newWorkspaceName, isDeleting, workspaceToDelete>>
  /\ UNCHANGED <<workspaces, decVars, location>>

\* the click on Delete in the confirmation: up to the await of deleteWorkspace
handleDeleteWorkspace ==
  /\ Starts
  /\ IF workspaceToDelete = <<>>
     THEN /\ inv' = Append(inv, Invocation("delete", workspaceToDelete, "done", <<>>))
          /\ UNCHANGED uiVars
     ELSE /\ loading' = TRUE
          /\ inv' = Append(inv, Invocation("delete", workspaceToDelete, "awaitDelete",
                                           <<Call("delete", workspaceToDelete[1].id)>>))
          /\ UNCHANGED <<isCreating, newWorkspaceName, isDeleting, workspaceToDelete>>
  /\ UNCHANGED <<workspaces, decVars, location>>

\* deleteWorkspace resolves: notify success, location.assign(origin); finally
DeleteResolved(i) ==
  /\ Resumes(i, "delete", "awaitDelete")
  /\ Continue(i, <<Resolved("delete", ""), Notify("success", DeletedSuccessfully),
                   Navigate(OriginUrl)>>, "done")
  /\ location' = OriginUrl
  /\ DeleteFinally
  /\ UNCHANGED <<workspaces, decVars>>

\* mutant: the catch notifies nothing
DeleteRejectedSilent(i) ==
  /\ Resumes(i, "delete", "awaitDelete")
  /\ Continue(i, <<Rejected("delete")>>, "done")
  /\ DeleteFinally
  /\ UNCHANGED <<workspaces, decVars, location>>

\* deleteWorkspace rejects: the catch notifies deleteFailed; finally
DeleteRejected(i) ==
  /\ Resumes(i, "delete", "awaitDelete")
  /\ LET c == Catch("delete", "awaitDelete", <<Notify("error", DeleteFailed)>>)
     IN Continue(i, <<Rejected("delete")>> \o c.events, c.pc)
  /\ DeleteFinally
  /\ UNCHANGED <<workspaces, decVars, location>>

(***************************************************************************)
(* The handlers that only set state.                                       *)
(***************************************************************************)
\* the delete icon of a row, shown for a workspace that is not current and
\* that the user owns
showDeleteConfirm(k) ==
  /\ Idle
  /\ ~workspaces[k].current /\ workspaces[k].role = "owner"
  /\ workspaceToDelete' = <<[id |-> workspaces[k].id, name |-> workspaces[k].name]>>
  /\ isDeleting' = TRUE
  /\ UNCHANGED <<workspaces, decVars, isCreating, newWorkspaceName, loading, inv, location>>

\* onClose and Cancel of the confirmation
CancelDelete ==
  /\ Idle
  /\ isDeleting' = FALSE
  /\ workspaceToDelete' = <<>>
  /\ UNCHANGED <<workspaces, decVars, isCreating, newWorkspaceName, loading, inv, location>>

\* the "create workspace" entry of the menu
OpenCreate ==
  /\ Idle
  /\ isCreating' = TRUE
  /\ UNCHANGED <<workspaces, decVars, newWorkspaceName, loading, isDeleting, workspaceToDelete,
                 inv, location>>

\* onChange of the name input, which the creation modal holds
ChangeName(name) ==
  /\ Idle
  /\ isCreating
  /\ Len(name) <= NameMaxLength
  /\ newWorkspaceName' = name
  /\ UNCHANGED <<workspaces, decVars, isCreating, loading, isDeleting, workspaceToDelete,
                 inv, location>>

\* onClose and Cancel of the creation modal
CancelCreate ==
  /\ Idle
  /\ isCreating' = FALSE
  /\ newWorkspaceName' = <<>>
  /\ UNCHANGED <<workspaces, decVars, loading, isDeleting, workspaceToDelete, inv, location>>

\* a handler that has run to its end returns
Return(i) ==
  /\ inv[i].pc = "done"
  /\ inv' = SubSeq(inv, 1, i - 1) \o SubSeq(inv, i + 1, Len(inv))
  /\ UNCHANGED <<workspaces, decVars, uiVars, location>>

(***************************************************************************)
(* The component.                                                          *)
(***************************************************************************)
vars == <<flowVars, decVars>>

Init ==
  /\ workspaces \in WorkspaceRows
  /\ isCreating = FALSE
  /\ newWorkspaceName = <<>>
  /\ loading = FALSE
  /\ isDeleting = FALSE
  /\ workspaceToDelete = <<>>
  /\ inv = <<>>
  /\ location = <<>>
  /\ DecoderIdle

Next ==
  \/ \E k \in 1..Len(workspaces) : handleSwitchWorkspace(workspaces[k].id)
  \/ \E i \in 1..Len(inv) : SwitchResolved(i)
  \/ \E i \in 1..Len(inv) : SwitchRejected(i)
  \/ handleCreateWorkspace
  \/ \E i \in 1..Len(inv), id \in CreatedIds : CreateResolved(i, id)
  \/ \E i \in 1..Len(inv) : CreateRejectedNoBody(i)
  \/ \E i \in 1..Len(inv) : CreateRejected(i)
  \/ \E i \in 1..Len(inv), body \in ErrorBodies : ErrorBodyRead(i, body)
  \/ \E i \in 1..Len(inv) : CreatedSwitchResolved(i)
  \/ \E i \in 1..Len(inv) : CreatedSwitchRejected(i)
  \/ handleDeleteWorkspace
  \/ \E i \in 1..Len(inv) : DeleteResolved(i)
  \/ \E i \in 1..Len(inv) : DeleteRejected(i)
  \/ \E k \in 1..Len(workspaces) : showDeleteConfirm(k)
  \/ CancelDelete
  \/ OpenCreate
  \/ \E name \in TypedNames : ChangeName(name)
  \/ CancelCreate
  \/ \E i \in 1..Len(inv) : Return(i)

Spec == Init /\ [][Next]_vars

\* the remote call, or the read of the error body, that invocation i is
\* suspended at settles, and the handler runs on
Settles(i) ==
  /\ i \in 1..Len(inv)
  /\ \/ SwitchResolved(i)
     \/ SwitchRejected(i)
     \/ \E id \in CreatedIds : CreateResolved(i, id)
     \/ CreateRejectedNoBody(i)
     \/ CreateRejected(i)
     \/ \E body \in ErrorBodies : ErrorBodyRead(i, body)
     \/ CreatedSwitchResolved(i)
     \/ CreatedSwitchRejected(i)
     \/ DeleteResolved(i)
     \/ DeleteRejected(i)

\* Every remote call and every read of a stream settles, and a handler
\* whose await has settled is run by the event loop, however many other
\* handlers run meanwhile; a handler at its end returns.
Fairness ==
  /\ \A i \in 1..MaxPending : SF_vars(Settles(i))
  /\ WF_vars(\E i \in 1..Len(inv) : Return(i))

FairSpec == Spec /\ Fairness

(***************************************************************************)
(* readJsonFromStream on its own: the call is given one of DecoderInputs   *)
(* and runs to its end.                                                    *)
(***************************************************************************)
\* the scalar values: null, the booleans, integers, and strings with
\* characters that are escaped (quote, backslash, control) or take two,
\* three and four bytes in UTF-8
Scalars ==
  { JNull, JBool(TRUE), JBool(FALSE), JNum(0), JNum(-7), JNum(120),
    JStr(<<>>), JStr(Str("a b")), JStr(<<233, 34>>), JStr(<<92, 10, 1>>),
    JStr(<<8364, 128512>>) }

MemberKeys == { <<>>, CodeKey, <<233>> }

\* the values nested at most d deep
RECURSIVE JsonValues(_)
JsonValues(d) ==
  IF d = 0 THEN Scalars
  ELSE LET inner == JsonValues(d - 1) IN
       Scalars
       \cup { JArr(<<>>), JObj({}) }
       \cup { JArr(<<a>>) : a \in inner }
       \cup { JArr(<<a, b>>) : a \in inner, b \in {JNull, JNum(-7)} }
       \cup { JObj({<<k, a>>}) : k \in MemberKeys, a \in inner }
       \cup { JObj({<<CodeKey, a>>, <<<<>>, JNum(0)>>}) : a \in inner }

\* the bytes of the arbitrary inputs: " 0 1 [ ] space, and the two bytes of
\* U+00E9, each of which is malformed on its own
RawAlphabet == {34, 48, 49, 91, 93, 32, 195, 169}

RawBytes == UNION { [1..n -> RawAlphabet] : n \in 0..MaxRawLen }

\* bytes as a stream: in one chunk, or cut in two at any place
Chunkings(bytes) ==
  { <<bytes>> }
  \cup { <<SubSeq(bytes, 1, n), SubSeq(bytes, n + 1, Len(bytes))>> : n \in 0..Len(bytes) }

\* the call is given `given`, made as `from` says
Given(from, given) ==
  /\ origin = from
  /\ input = given
  /\ stream = given

\* the inputs: the serialization of a value or arbitrary bytes, chunked in
\* every way; a stream closed with no chunk; a stream that fails; no stream
DecoderInputs ==
  \/ \E v \in JsonValues(MaxDepth) :
       \E c \in Chunkings(Utf8Encode(Stringify(v))) : Given(<<"json", v>>, Readable(c))
  \/ \E b \in RawBytes :
       \E c \in Chunkings(b) : Given(<<"raw">>, Readable(c))
  \/ \E st \in {Readable(<<>>), ErroredStream, NoStream} : Given(<<"raw">>, st)

DecoderInit ==
  /\ workspaces = <<>>
  /\ isCreating = FALSE
  /\ newWorkspaceName = <<>>
  /\ loading = FALSE
  /\ isDeleting = FALSE
  /\ workspaceToDelete = <<>>
  /\ inv = <<>>
  /\ location = <<>>
  /\ DecoderInputs
  /\ dpc = "getReader"
  /\ reads = 0
  /\ bodyText = <<>>
  /\ result = NoResult

\* const reader = stream.getReader()
GetReader ==
  /\ dpc = "getReader"
  /\ dpc' = IF GetReaderThrows(stream) THEN "threw" ELSE "read"
  /\ UNCHANGED <<flowVars, input, origin, stream, reads, bodyText, result>>

\* const { value } = await reader.read(); return new TextDecoder().decode(value)
ReadChunk ==
  /\ dpc = "read"
  /\ reads' = reads + 1
  /\ IF ReadRejects(stream)
     THEN /\ dpc' = "threw"
          /\ UNCHANGED <<stream, bodyText>>
     ELSE /\ dpc' = "parse"
          /\ bodyText' = readStream(stream)
          /\ stream' = [stream EXCEPT !.chunks = IF @ = <<>> THEN <<>> ELSE Tail(@)]
  /\ UNCHANGED <<flowVars, input, origin, result>>

\* try { return { data: JSON.parse(bodyText), error: null } }
\* catch (error) { return { data: bodyText, error } }
ParseText ==
  /\ dpc = "parse"
  /\ result' = ParseBody(bodyText)
  /\ dpc' = "returned"
  /\ UNCHANGED <<flowVars, input, origin, stream, reads, bodyText>>

DecoderNext == GetReader \/ ReadChunk \/ ParseText

DecoderSpec == DecoderInit /\ [][DecoderNext]_vars

(***************************************************************************)
(* Properties of the handlers, checked under Spec.                         *)
(***************************************************************************)
Invocations == 1..Len(inv)

IsCall(e) == e[1] = "call"
IsCallOf(e, op) == e[1] = "call" /\ e[2] = op
IsNotify(e) == e[1] = "notify"
IsNotifyOf(e, type) == e[1] = "notify" /\ e[2] = type
IsNavigate(e) == e[1] = "navigate"
IsDecoding(e) == e[1] \in {"readJson", "decoded", "decodeThrew"}

\* how many of the events satisfy Test
Count(events, Test(_)) == Cardinality({k \in 1..Len(events) : Test(events[k])})

CallsOf(events, op) == Cardinality({k \in 1..Len(events) : IsCallOf(events[k], op)})
NotifiesOf(events, type) ==
  Cardinality({k \in 1..Len(events) : IsNotifyOf(events[k], type)})

\* invocation i is a Switch to the workspace that is current
SwitchesToCurrent(i) ==
  /\ inv[i].op = "switch"
  /\ \E k \in 1..Len(workspaces) :
       /\ workspaces[k].current
       /\ \A j \in 1..(k - 1) : ~workspaces[j].current
       /\ workspaces[k].id = inv[i].arg

\* C1: a Switch whose target is the current workspace's id returns at once,
\* having made no remote call, no notification and no navigation.
C1_SwitchToCurrentIsNoOp ==
  \A i \in Invocations :
    SwitchesToCurrent(i) => inv[i].pc = "done" /\ inv[i].events = <<>>

C1_Witness ==
  \E i \in Invocations : SwitchesToCurrent(i) /\ inv[i].pc = "done" /\ location = <<>>

\* C2: a Create whose name is blank once trimmed makes no remote call and
\* exactly one notification, the validation error; a Create whose trimmed
\* name is not empty makes exactly one create call, carrying the trimmed
\* name, and no validation notification.
C2_CreateValidation ==
  \A i \in Invocations :
    inv[i].op = "create" =>
      IF Trim(inv[i].arg) = <<>>
      THEN inv[i].events = <<Notify("error", NameRequired)>>
      ELSE /\ CallsOf(inv[i].events, "create") = 1
           /\ inv[i].events[1] = Call("create", Trim(inv[i].arg))
           /\ \A k \in 1..Len(inv[i].events) :
                inv[i].events[k] # Notify("error", NameRequired)

\* a Create with a name that trimming shortens is in progress while a Create
\* with a blank, not empty, name returns
C2_Witness ==
  \E i, j \in Invocations :
    /\ inv[i].op = "create" /\ inv[i].events = <<Notify("error", NameRequired)>>
    /\ inv[i].arg # <<>>
    /\ inv[j].op = "create" /\ Trim(inv[j].arg) # <<>> /\ Trim(inv[j].arg) # inv[j].arg
    /\ CallsOf(inv[j].events, "create") = 1

\* the decoded value is an object whose "code" is the string code
HasCode(data, code) ==
  /\ data[1] = "obj"
  /\ \E m \in data[2] : m[1] = Str("code") /\ m[2] = <<"str", Str(code)>>

\* the results readJsonFromStream returned to invocation i
DecodeResults(i) ==
  { inv[i].events[k][2] : k \in {n \in 1..Len(inv[i].events) : inv[i].events[n][1] = "decoded"} }

Notifications(i) == SelectSeq(inv[i].events, IsNotify)

\* C3: when the create call fails and decoding the error body returns a
\* result, the invocation ends having notified exactly the "exceeded limit"
\* error if the result has no parse error and its code is
\* "exceed_max_workspaces", and nothing otherwise; either way there is no
\* success notification, no switch call, no navigation, and the draft is reset.
C3_DecodedFailure ==
  \A i \in Invocations :
    (inv[i].op = "create" /\ inv[i].pc = "done") =>
      \A res \in DecodeResults(i) :
        /\ Notifications(i) =
             IF res.error = "null" /\ HasCode(res.data, "exceed_max_workspaces")
             THEN <<Notify("error", CreateFailedExceed)>>
             ELSE <<>>
        /\ NotifiesOf(inv[i].events, "success") = 0
        /\ CallsOf(inv[i].events, "switch") = 0
        /\ Count(inv[i].events, IsNavigate) = 0
        /\ newWorkspaceName = <<>>

\* a Create ends after the body decoded to the known code; its draft was not empty
C3_Witness ==
  \E i \in Invocations :
    /\ inv[i].op = "create" /\ inv[i].pc = "done"
    /\ \E res \in DecodeResults(i) : HasCode(res.data, "exceed_max_workspaces")
    /\ Notifications(i) = <<Notify("error", CreateFailedExceed)>>

\* invocation i is a Create whose create call has resolved
CreateSucceeded(i) ==
  /\ inv[i].op = "create"
  /\ \E k \in 1..Len(inv[i].events) :
       inv[i].events[k][1] = "resolved" /\ inv[i].events[k][2] = "create"

\* C4: when the create call succeeds the invocation's events are, in this
\* order: the create call, its completion with an id, one success
\* notification, one switch call with that id as tenant_id; navigation
\* happens only as the event right after the successful completion of that
\* switch, and to the bare origin.
C4_CreateThenSwitchThenNavigate ==
  \A i \in Invocations :
    CreateSucceeded(i) =>
      LET es == inv[i].events IN
      /\ Len(es) >= 4
      /\ IsCallOf(es[1], "create")
      /\ es[2][1] = "resolved" /\ es[2][2] = "create"
      /\ es[3] = Notify("success", CreatedSuccessfully)
      /\ es[4] = Call("switch", es[2][3])
      /\ NotifiesOf(es, "success") = 1
      /\ CallsOf(es, "switch") = 1
      /\ \A k \in 1..Len(es) :
           IsNavigate(es[k]) =>
             /\ es[k] = Navigate(OriginUrl)
             /\ k = 6
             /\ es[5] = Resolved("switch", "")
      /\ (inv[i].pc = "done" /\ es[5] = Resolved("switch", "")) =>
           (Len(es) = 6 /\ es[6] = Navigate(OriginUrl) /\ location = OriginUrl)

\* a Create ends with the navigation after both calls succeeded
C4_Witness ==
  \E i \in Invocations :
    /\ CreateSucceeded(i) /\ inv[i].pc = "done"
    /\ inv[i].events[Len(inv[i].events)] = Navigate(OriginUrl)

\* the state Create's finally block leaves
CreateStateCleared == loading = FALSE /\ isCreating = FALSE /\ newWorkspaceName = <<>>

\* C5 as claimed: every invocation of Create that returns, the one aborted by
\* the empty-name validation included, ends with loading false, the creation
\* UI closed and the draft name empty.
C5_EveryCreateEndsCleared ==
  \A i \in Invocations :
    (inv[i].op = "create" /\ inv[i].pc = "done") => CreateStateCleared

\* invocation i is a Create that the empty-name validation aborted
AbortedByValidation(i, invs) ==
  /\ i \in 1..Len(invs)
  /\ invs[i].op = "create"
  /\ invs[i].pc = "done"
  /\ invs[i].events = <<Notify("error", NameRequired)>>

\* C5 amended: every invocation of Create that passes the empty-name
\* validation ends, whatever the outcome of its remote calls, with loading
\* false, the creation UI closed and the draft name empty; an invocation
\* aborted by the validation returns leaving loading, the creation UI and
\* the draft name as they were.
C5_ValidatedCreateEndsCleared ==
  /\ [](\A i \in Invocations :
          (inv[i].op = "create" /\ inv[i].pc = "done" /\ ~AbortedByValidation(i, inv))
            => CreateStateCleared)
  /\ [][(~AbortedByValidation(Len(inv'), inv) /\ AbortedByValidation(Len(inv'), inv'))
          => UNCHANGED uiVars]_vars

\* a Create ends after its create call failed and nothing was notified
C5_Witness ==
  \E i \in Invocations :
    /\ inv[i].op = "create" /\ inv[i].pc = "done"
    /\ CallsOf(inv[i].events, "create") = 1
    /\ Notifications(i) = <<>>
    /\ CreateStateCleared

\* invocation i is a DeleteConfirm made with PendingDeletion set
DeletesPending(i) == inv[i].op = "delete" /\ inv[i].arg # <<>>

\* C6: a DeleteConfirm with PendingDeletion = {id, name} makes exactly one
\* delete call, with that id; it ends either with the success notification
\* followed by the navigation to the bare origin, or with the "delete
\* failed" error alone, the error body not being decoded; both times with
\* loading false, the confirmation closed and PendingDeletion null.
C6_DeleteConfirm ==
  \A i \in Invocations :
    DeletesPending(i) =>
      LET es == inv[i].events
          call == Call("delete", inv[i].arg[1].id)
      IN
      /\ es[1] = call
      /\ CallsOf(es, "delete") = 1 /\ Count(es, IsCall) = 1
      /\ inv[i].pc = "done" =>
           /\ \/ es = <<call, Resolved("delete", ""),
                        Notify("success", DeletedSuccessfully), Navigate(OriginUrl)>>
              \/ es = <<call, Rejected("delete"), Notify("error", DeleteFailed)>>
           /\ loading = FALSE /\ isDeleting = FALSE /\ workspaceToDelete = <<>>

\* a DeleteConfirm ends after its delete call failed
C6_Witness ==
  \E i \in Invocations :
    /\ DeletesPending(i) /\ inv[i].pc = "done"
    /\ Rejected("delete") \in {inv[i].events[k] : k \in 1..Len(inv[i].events)}

\* C7: a Switch whose target is not the current workspace makes exactly one
\* switch call, with tenant_id the target; it ends either with one success
\* notification followed by the navigation to origin plus base path, or
\* with the "save failed" error alone: no navigation, and the error body is
\* not given to the stream decoder.
C7_SwitchToOther ==
  \A i \in Invocations :
    (inv[i].op = "switch" /\ ~SwitchesToCurrent(i)) =>
      LET es == inv[i].events
          call == Call("switch", inv[i].arg)
      IN
      /\ es[1] = call
      /\ Count(es, IsCall) = 1
      /\ Count(es, IsDecoding) = 0
      /\ inv[i].pc = "done" =>
           \/ /\ es = <<call, Resolved("switch", ""),
                        Notify("success", ModifiedSuccessfully),
                        Navigate(OriginBasePathUrl)>>
              /\ location = OriginBasePathUrl
           \/ es = <<call, Rejected("switch"), Notify("error", SaveFailed)>>

\* a Switch ends after its switch call failed
C7_Witness ==
  \E i \in Invocations :
    /\ inv[i].op = "switch" /\ inv[i].pc = "done"
    /\ inv[i].events = <<Call("switch", inv[i].arg), Rejected("switch"),
                         Notify("error", SaveFailed)>>

\* the generic error message of each handler
GenericFailure(op) ==
  CASE op = "switch" -> SaveFailed
    [] op = "create" -> CreateFailed
    [] op = "delete" -> DeleteFailed

\* the events of es after the k-th
After(es, k) == {es[n] : n \in (k + 1)..Len(es)}

IsRejected(e) == e[1] = "rejected"

\* no remote call is made twice by invocation i
NotReissued(i) ==
  \A op \in {"switch", "create", "delete"} : CallsOf(inv[i].events, op) <= 1

\* C11 as claimed: whenever a remote call of a Switch, Create or
\* DeleteConfirm fails, the invocation ends having emitted, after the
\* failure, the generic error notification of its handler, and no remote
\* call is made twice.
C11_EveryFailureNotifiedGenerically ==
  \A i \in Invocations :
    /\ NotReissued(i)
    /\ inv[i].pc = "done" =>
         \A k \in 1..Len(inv[i].events) :
           IsRejected(inv[i].events[k]) =>
             Notify("error", GenericFailure(inv[i].op)) \in After(inv[i].events, k)

\* C11 amended: when the switch call of a Switch, the delete call of a
\* DeleteConfirm or the switch call chained after a successful create fails,
\* the invocation ends having emitted exactly one error notification, the
\* generic one of its handler, after the failure; when the create call of a
\* Create fails, the generic "create failed" error is emitted exactly when
\* decoding the error body throws, and when decoding returns a result the
\* only notification is "exceeded limit" for the code
\* "exceed_max_workspaces" and none otherwise; no remote call is made twice.
C11_FailureNotification ==
  \A i \in Invocations :
    LET es == inv[i].events
        generic == Notify("error", GenericFailure(inv[i].op))
    IN
    /\ NotReissued(i)
    /\ inv[i].pc = "done" =>
         \A k \in 1..Len(es) :
           /\ (IsRejected(es[k]) /\ es[k] # Rejected("create")) =>
                /\ generic \in After(es, k)
                /\ NotifiesOf(es, "error") = 1
           /\ es[k] = Rejected("create") =>
                /\ DecodeThrew \in After(es, k) <=> generic \in After(es, k)
                /\ DecodeThrew \in After(es, k) => SelectSeq(es, IsNotify) = <<generic>>
                /\ \A res \in DecodeResults(i) :
                     SelectSeq(es, IsNotify) =
                       IF res.error = "null" /\ HasCode(res.data, "exceed_max_workspaces")
                       THEN <<Notify("error", CreateFailedExceed)>>
                       ELSE <<>>
                /\ DecodeThrew \in After(es, k) \/ DecodeResults(i) # {}

\* a Create ends without any notification after its create call failed with
\* a body that is not JSON
C11_Witness ==
  \E i \in Invocations :
    /\ inv[i].op = "create" /\ inv[i].pc = "done"
    /\ Rejected("create") \in After(inv[i].events, 0)
    /\ \E res \in DecodeResults(i) : res.error # "null"
    /\ NotifiesOf(inv[i].events, "error") = 0

IsFailure(e) == e[1] \in {"rejected", "decodeThrew"}

\* C12: no failure of a remote call and no failure of the decoding of a
\* create error body leaves its handler: an invocation is never ended by an
\* exception, and once one of its calls or its decoding has failed it is
\* either reading the error body or at its normal end.
C12_NothingEscapes ==
  \A i \in Invocations :
    /\ inv[i].pc # "uncaught"
    /\ Count(inv[i].events, IsFailure) > 0 => inv[i].pc \in {"awaitRead", "done"}
    /\ DecodeThrew \in After(inv[i].events, 0) => inv[i].pc = "done"

\* a Create ends normally after its create call failed and the decoding of
\* the error body threw
C12_Witness ==
  \E i \in Invocations :
    /\ inv[i].op = "create" /\ inv[i].pc = "done"
    /\ Len(inv[i].events) >= 4
    /\ SubSeq(inv[i].events, 2, 4) = <<Rejected("create"), ReadJson, DecodeThrew>>
    /\ loading = FALSE

\* what the delete icon, the confirmation's Cancel and onClose, and the
\* confirmation's Delete leave alone when they make no remote call
DeleteFrame == <<workspaces, isCreating, newWorkspaceName, loading, inv, location>>

\* C13: DeleteRequest(w) sets PendingDeletion to {w.id, w.name}, opens the
\* confirmation and changes nothing else; DeleteCancel clears
\* PendingDeletion, closes the confirmation and changes nothing else;
\* DeleteConfirm with PendingDeletion null returns at once having changed
\* nothing, loading included; none of the three makes a remote call, a
\* notification or a navigation.
C13_DeleteFrame ==
  /\ [](\A i \in Invocations :
          (inv[i].op = "delete" /\ inv[i].arg = <<>>) =>
            (inv[i].pc = "done" /\ inv[i].events = <<>>))
  /\ [][ /\ \A k \in 1..Len(workspaces) :
              showDeleteConfirm(k) =>
                /\ workspaceToDelete' =
                     <<[id |-> workspaces[k].id, name |-> workspaces[k].name]>>
                /\ isDeleting' = TRUE
                /\ UNCHANGED DeleteFrame
         /\ CancelDelete =>
              /\ workspaceToDelete' = <<>>
              /\ isDeleting' = FALSE
              /\ UNCHANGED DeleteFrame
         /\ (workspaceToDelete = <<>> /\ handleDeleteWorkspace) =>
              /\ inv' = Append(inv, Invocation("delete", <<>>, "done", <<>>))
              /\ UNCHANGED <<workspaces, uiVars, location>>
         /\ (workspaceToDelete' # workspaceToDelete /\ inv' = inv) =>
              /\ isDeleting' = (workspaceToDelete' # <<>>)
              /\ UNCHANGED DeleteFrame
       ]_vars

\* a DeleteConfirm with PendingDeletion null returns while the call of
\* another invocation is pending: loading stays true
C13_Witness ==
  \E i, j \in Invocations :
    /\ inv[i].op = "delete" /\ inv[i].arg = <<>> /\ inv[i].pc = "done"
    /\ inv[j].pc \in {"awaitCreate", "awaitDelete"}
    /\ loading = TRUE

\* C14: in every state in which the create call of a Create, or the delete
\* call of a DeleteConfirm, has been made and has not settled, loading is
\* true and the state of that operation is not cleared: the creation modal
\* is open with a draft, or the confirmation is open with PendingDeletion.
C14_NothingClearedInFlight ==
  \A i \in Invocations :
    /\ inv[i].pc = "awaitCreate" =>
         (loading /\ isCreating /\ newWorkspaceName # <<>>)
    /\ inv[i].pc = "awaitDelete" =>
         (loading /\ isDeleting /\ workspaceToDelete # <<>>)

\* C15: at most one create call is pending at a time: a Create invoked
\* while the create call of an earlier Create is pending makes no second one.
C15_NoDuplicateCreate ==
  Cardinality({i \in Invocations : inv[i].pc = "awaitCreate"}) <= 1

\* event e is among those of invocation i
Emitted(i, e) == e \in After(inv[i].events, 0)

\* C16: in a Create, once the decoding of the error body has returned a
\* result, with or without a parse error, "create failed" is not notified;
\* "create failed" is notified only after an exception raised outside a
\* decoding that returns (the decoding threw, or the chained switch
\* failed), and never together with "exceeded limit".
C16_ExclusiveCatchScopes ==
  \A i \in Invocations :
    inv[i].op = "create" =>
      /\ DecodeResults(i) # {} => ~Emitted(i, Notify("error", CreateFailed))
      /\ Emitted(i, Notify("error", CreateFailed)) =>
           /\ Emitted(i, DecodeThrew) \/ Emitted(i, Rejected("switch"))
           /\ ~Emitted(i, Notify("error", CreateFailedExceed))
           /\ inv[i].events[Len(inv[i].events)] = Notify("error", CreateFailed)
           /\ inv[i].events[Len(inv[i].events) - 1] \in {DecodeThrew, Rejected("switch")}

\* a Create ends with "create failed" as its only notification after the
\* decoding of the error body threw
C16_Witness ==
  \E i \in Invocations :
    /\ inv[i].op = "create" /\ inv[i].pc = "done"
    /\ Emitted(i, DecodeThrew) /\ DecodeResults(i) = {}
    /\ Notifications(i) = <<Notify("error", CreateFailed)>>

\* the await of the remote call each operation is named after
RemoteCallAwait(op) ==
  CASE op = "switch" -> "awaitSwitch"
    [] op = "create" -> "awaitCreate"
    [] op = "delete" -> "awaitDelete"

\* C17 as claimed: an invocation that has not ended is suspended at the one
\* remote call of its operation, the only call it has made; it is never
\* suspended at the decoding of an error body nor at a chained switch.
C17_SingleSuspensionPoint ==
  \A i \in Invocations :
    inv[i].pc # "done" =>
      /\ inv[i].pc = RemoteCallAwait(inv[i].op)
      /\ Count(inv[i].events, IsCall) = 1

\* C17 amended: a Switch and a DeleteConfirm have exactly one suspension
\* point, their remote call.  A Create has at most two: its create call
\* and then, when that call failed with a stream as body, the reading of
\* the error body or, when it succeeded, the switch chained after it.  Each
\* is passed at most once, other handlers can run while an invocation is
\* suspended at any of them, and nothing else suspends.
C17_SuspensionPoints ==
  \A i \in Invocations :
    LET es == inv[i].events
        pc == inv[i].pc
    IN
    /\ inv[i].op = "switch" =>
         /\ pc \in {"awaitSwitch", "done"}
         /\ pc = "awaitSwitch" => es = <<Call("switch", inv[i].arg)>>
    /\ inv[i].op = "delete" =>
         /\ pc \in {"awaitDelete", "done"}
         /\ pc = "awaitDelete" => es = <<Call("delete", inv[i].arg[1].id)>>
    /\ inv[i].op = "create" =>
         /\ pc \in {"awaitCreate", "awaitRead", "awaitSwitch", "done"}
         /\ pc = "awaitCreate" => es = <<Call("create", Trim(inv[i].arg))>>
         /\ pc = "awaitRead" =>
              es = <<Call("create", Trim(inv[i].arg)), Rejected("create"), ReadJson>>
         /\ pc = "awaitSwitch" =>
              /\ Len(es) = 4
              /\ SubSeq(es, 1, 1) = <<Call("create", Trim(inv[i].arg))>>
              /\ es[2][1] = "resolved" /\ es[2][2] = "create"
              /\ SubSeq(es, 3, 4) = <<Notify("success", CreatedSuccessfully),
                                      Call("switch", es[2][3])>>

\* a Switch was invoked, and is suspended at its call, while a Create is
\* suspended at the reading of its error body
C17_Witness ==
  \E i, j \in Invocations :
    /\ i < j
    /\ inv[i].op = "create" /\ inv[i].pc = "awaitRead"
    /\ inv[j].op = "switch" /\ inv[j].pc = "awaitSwitch"

\* a Create that passed the validation, or a DeleteConfirm with
\* PendingDeletion set, has not ended
OperationPending ==
  \E i \in Invocations : inv[i].op \in {"create", "delete"} /\ inv[i].pc # "done"

\* C18: with every remote call and every read of a stream settling, each
\* invocation ends (of the k oldest pending ones, one reaches its end, for
\* every k); a Create that passed the validation ends with loading false and
\* the creation modal closed, a DeleteConfirm with PendingDeletion set ends
\* with loading false, the confirmation closed and PendingDeletion null;
\* loading never stays true, and it is false whenever no such operation is
\* pending.
C18_EveryOperationCompletes ==
  /\ \A k \in 1..MaxPending :
       (Len(inv) >= k) ~> (\E i \in 1..k : i <= Len(inv) /\ inv[i].pc = "done")
  /\ loading ~> ~loading
  /\ [](~OperationPending => ~loading)
  /\ [](\A i \in Invocations :
          inv[i].pc = "done" =>
            /\ (inv[i].op = "create" /\ Count(inv[i].events, IsCall) > 0) =>
                 (~loading /\ ~isCreating)
            /\ (inv[i].op = "delete" /\ inv[i].arg # <<>>) =>
                 (~loading /\ ~isDeleting /\ workspaceToDelete = <<>>))

\* a Create that passed the validation has ended after its create call and
\* its chained switch, no operation is pending any more, loading is false
\* and the creation modal is closed
C18_Witness ==
  /\ Len(inv) = 1
  /\ inv[1].op = "create" /\ inv[1].pc = "done"
  /\ Count(inv[1].events, IsCall) = 2
  /\ ~OperationPending
  /\ ~loading /\ ~isCreating /\ newWorkspaceName = <<>>

\* C19: the notifications of one invocation of Create are none, exactly one
\* success, or exactly one error, never a success and an error
C19_SuccessOrErrorNotBoth ==
  \A i \in Invocations :
    inv[i].op = "create" =>
      LET successes == NotifiesOf(inv[i].events, "success")
          errors == NotifiesOf(inv[i].events, "error")
      IN  \/ successes = 0 /\ errors = 0
          \/ successes = 1 /\ errors = 0
          \/ successes = 0 /\ errors = 1

\* invocation i reaches its end in this step
Completes(i) ==
  /\ inv[i].pc # "done"
  /\ Len(inv') = Len(inv)
  /\ inv'[i].pc \in {"done", "uncaught"}

\* C20: the completion of an operation clears only the transient state of
\* its own request: when the delete call for workspace A completes while
\* PendingDeletion is another workspace B, PendingDeletion stays B and the
\* confirmation stays open; when a create call completes while the creation
\* modal is open with another draft than the one it was issued for, the
\* modal stays open and the draft stays as it is
C20_CompletionClearsOwnRequestOnly ==
  [][\A i \in Invocations :
       Completes(i) =>
         /\ (/\ inv[i].op = "delete"
             /\ isDeleting
             /\ workspaceToDelete # <<>>
             /\ workspaceToDelete # inv[i].arg)
            => (workspaceToDelete' = workspaceToDelete /\ isDeleting')
         /\ (/\ inv[i].op = "create"
             /\ isCreating
             /\ newWorkspaceName # inv[i].arg)
            => (newWorkspaceName' = newWorkspaceName /\ isCreating')]_vars

(***************************************************************************)
(* Properties of readJsonFromStream, checked under DecoderSpec.            *)
(***************************************************************************)
\* the texts of at most n characters of S
TextsOf(S, n) == UNION { [1..k -> S] : k \in 0..n }

\* The JSON texts of at most n characters over the characters the arbitrary
\* inputs decode to (" 0 1 [ ] space U+00E9 U+FFFD), generated from the
\* grammar: text = ws value ws; value = number | string | array;
\* number = 0 | 1 digit*; string = " char* "; array = [ ws ] | [ text ].
StringChars == {48, 49, 91, 93, 32, 233, Replacement}

BlankTexts(n) == TextsOf({32}, n)

NumberTexts(n) == { t \in TextsOf({48, 49}, n) : t = <<48>> \/ (t # <<>> /\ t[1] = 49) }

StringTexts(n) == { <<34>> \o t \o <<34>> : t \in TextsOf(StringChars, n - 2) }

RECURSIVE ValueTexts(_)
RECURSIVE JsonTexts(_)

ValueTexts(n) ==
  IF n < 1 THEN {}
  ELSE NumberTexts(n)
       \cup StringTexts(n)
       \cup { <<91>> \o t \o <<93>> : t \in BlankTexts(n - 2) \cup JsonTexts(n - 2) }

JsonTexts(n) ==
  { t \in { a \o v \o b : a \in BlankTexts(n), v \in ValueTexts(n), b \in BlankTexts(n) } :
      Len(t) <= n }

ShortJsonTexts == JsonTexts(MaxRawLen)

C10_FirstChunkOnly ==
  dpc = "returned" =>
    /\ reads = 1
    /\ stream.chunks = IF input.chunks = <<>> THEN <<>> ELSE Tail(input.chunks)
    /\ result = ParseBody(Utf8Decode(IF input.chunks = <<>> THEN <<>>
                                      ELSE Head(input.chunks)))

\* the serialization of a value cut in two chunks: the call returned the
\* text of the first one as a parse failure
C10_Witness ==
  /\ dpc = "returned"
  /\ origin[1] = "json"
  /\ Len(input.chunks) = 2 /\ input.chunks[1] # <<>> /\ input.chunks[2] # <<>>
  /\ JsonParse(Utf8Decode(input.chunks[1] \o input.chunks[2])).ok
  /\ result = [data |-> <<"str", Utf8Decode(input.chunks[1])>>, error |-> "SyntaxError"]

====
